---- MODULE Spec2Model ----
(***************************************************************************)
(* Pixshop (PIXHUB): the edit-history store, the transient editing state,  *)
(* the passport workflow and the request orchestration of src/App.tsx,     *)
(* with the panels of src/components that decide which handler can run.    *)
(*                                                                         *)
(* React semantics the model keeps:                                        *)
(*  - a handler is a closure over the state of the render it was created   *)
(*    in.  A synchronous handler runs in the latest render; the part of an *)
(*    async handler that runs after `await` (and img.onload / img.onerror) *)
(*    still reads the history and historyIndex of the render in which the  *)
(*    call was issued.  A pending call therefore carries that snapshot.    *)
(*  - all setState calls of one handler are applied together, and the      *)
(*    activeTab effect runs before the next event is handled.              *)
(***************************************************************************)
EXTENDS Integers, Sequences, FiniteSets, TLC

VARIABLES
    history,              \* App.tsx:41  File[]            (sequence of image ids)
    historyIndex,         \* App.tsx:42  0-based cursor, -1 when empty
    prompt,               \* App.tsx:43
    isLoading,            \* App.tsx:44  the busy flag
    error,                \* App.tsx:45  "" models null
    editHotspot,          \* App.tsx:46  <<>> models null
    displayHotspot,       \* App.tsx:47  <<>> models null
    activeTab,            \* App.tsx:48
    crop,                 \* App.tsx:50  <<>> models undefined
    completedCrop,        \* App.tsx:51  <<>> models undefined
    aspect,               \* App.tsx:52  <<>> models undefined
    adjustments,          \* App.tsx:57
    passportStep,         \* App.tsx:60
    passportCroppedImage, \* App.tsx:61  0 models null
    pending,              \* generator calls / sheet decodes in flight
    nextImage,            \* next fresh image id (every new File is a new object)
    lastAct,              \* history variable: the handler that ran last
    nav,                  \* history variable: the current undo/redo/reset/commit run
    frame                 \* the activation of cropImageToFile, of the sheet's
                          \* img.onload or of the generatedPrompt memo that is
                          \* being evaluated on its own: arguments, locals, result

vars == <<history, historyIndex, prompt, isLoading, error, editHotspot,
          displayHotspot, activeTab, crop, completedCrop, aspect, adjustments,
          passportStep, passportCroppedImage, pending, nextImage, lastAct, nav,
          frame>>

\* the variables of the program, without the history variables
progVars == <<history, historyIndex, prompt, isLoading, error, editHotspot,
              displayHotspot, activeTab, crop, completedCrop, aspect, adjustments,
              passportStep, passportCroppedImage, pending, nextImage>>

----------------------------------------------------------------------------
(* Bounds of the model *)

\* Number of distinct image files that can be created in one behaviour.
MaxImages == 4

----------------------------------------------------------------------------
(* Values *)

NoImage == 0
Null == <<>>
NoError == ""

Tab == {"retouch", "adjust", "filters", "crop", "enhance", "passport"}
PassportStep == {"idle", "cropping", "background", "sheet"}

AdjustmentKey == {"brightness", "contrast", "saturation", "temperature",
                  "sharpness", "vignetteIntensity", "vignetteFeather",
                  "colorBalance"}

initialAdjustments == [k \in AdjustmentKey |-> 0]

\* Inputs the user gives in a behaviour (small sets).
PromptInputs == {"", " ", "make the shirt blue"}
WhitespaceOnly == {"", " "}
HotspotInputs == {<<10, 20>>}
CropInputs == {[width |-> 0, height |-> 0], [width |-> 70, height |-> 90]}
PassportAspect == <<7, 9>>
AspectInputs == {Null, <<16, 9>>}
SliderInputs == {<<"vignetteIntensity", 0>>, <<"vignetteIntensity", 50>>,
                 <<"vignetteFeather", 0>>, <<"vignetteFeather", 10>>}

\* what can be typed into "Number of photos", as sequences of characters
PhotoCountInputs ==
    {<<"8">>, <<"0">>, <<"-", "1">>, <<"a", "b", "c">>, <<>>}

\* no function is being evaluated on its own
NoFrame == [fn |-> "none"]

\* no run in progress
NoNav == [kind |-> "none", op |-> "", stale |-> FALSE, down |-> 0, up |-> 0,
          base |-> -1, hist |-> <<>>, src |-> NoImage]

----------------------------------------------------------------------------
(* Derived values of a render *)

\* mutant of trim: the prompt is tested as typed
trimNothing(s) == s

\* String.prototype.trim on the modelled prompts
trim(s) == IF s \in WhitespaceOnly THEN "" ELSE s

\* Array.prototype.slice(start, end) for 0 <= start, 0 <= end
slice(s, start, end) ==
    SubSeq(s, start + 1, IF end < Len(s) THEN end ELSE Len(s))

\* history[i] ?? null
at(h, i) == IF (i + 1) \in DOMAIN h THEN h[i + 1] ELSE NoImage

currentImage == at(history, historyIndex)
originalImage == at(history, 0)

\* the object URL effects keep these in step with currentImage / originalImage
currentImageUrl == currentImage
originalImageUrl == originalImage

\* mutant of canUndo: undo offered at the first entry too
canUndoFromZero == historyIndex >= 0

canUndo == historyIndex > 0
canRedo == historyIndex < Len(history) - 1

\* !!completedCrop?.width && completedCrop.width > 0
isCropping == completedCrop # Null /\ completedCrop[1].width > 0

\* parseInt(string, 10): an optional sign, then the longest run of decimal
\* digits; NaN when there is no digit
NaN == <<>>
Digits == {"0", "1", "2", "3", "4", "5", "6", "7", "8", "9"}
digitValue(ch) ==
    CASE ch = "0" -> 0 [] ch = "1" -> 1 [] ch = "2" -> 2 [] ch = "3" -> 3
      [] ch = "4" -> 4 [] ch = "5" -> 5 [] ch = "6" -> 6 [] ch = "7" -> 7
      [] ch = "8" -> 8 [] OTHER -> 9

RECURSIVE parseDigits(_, _, _)
parseDigits(s, k, acc) ==
    IF k > Len(s) \/ s[k] \notin Digits
      THEN acc
      ELSE parseDigits(s, k + 1, acc * 10 + digitValue(s[k]))

parseInt(s) ==
    LET signed == s # <<>> /\ s[1] \in {"-", "+"}
        first == IF signed THEN 2 ELSE 1
    IN  IF first > Len(s) \/ s[first] \notin Digits
          THEN NaN
          ELSE IF signed /\ s[1] = "-"
                 THEN <<0 - parseDigits(s, first, 0)>>
                 ELSE <<parseDigits(s, first, 0)>>

isNaN(v) == v = NaN

\* imgRef.current: both <img ref={imgRef}> elements have src={currentImageUrl}
imgRefCurrent == currentImageUrl

\* Object.values(adjustments).some(v => v !== 0)
hasChanges == \E k \in AdjustmentKey : adjustments[k] # 0

\* The phrases of generatedPrompt, by the slider each comes from: every non-zero
\* slider that is not a vignette slider, then the vignette phrase.
promptParts(adj) ==
    {k \in AdjustmentKey :
        /\ k \notin {"vignetteIntensity", "vignetteFeather"}
        /\ adj[k] # 0}
    \cup (IF adj["vignetteIntensity"] # 0 THEN {"vignetteIntensity"} ELSE {})

\* generatedPrompt is '' exactly when there are no phrases
generatedPromptEmpty(adj) == promptParts(adj) = {}

\* what renderContent shows
errorShown == error # NoError
startScreenShown == ~errorShown /\ currentImageUrl = NoImage
editorShown == ~errorShown /\ currentImageUrl # NoImage
showCropper ==
    activeTab = "crop" \/ (activeTab = "passport" /\ passportStep = "cropping")

----------------------------------------------------------------------------
(* Which controls accept input in the current render *)

\* StartScreen is rendered instead of the editor (App.tsx:480)
uploadEnabled == startScreenShown

\* the spinner overlay covers the image while loading (App.tsx:532)
imageClickable == editorShown /\ ~isLoading

\* <input disabled={isLoading || !editHotspot}> (App.tsx:591)
promptInputEnabled ==
    editorShown /\ activeTab = "retouch" /\ ~isLoading /\ editHotspot # Null

\* <button type="submit" disabled={isLoading || !prompt.trim() || !editHotspot}>
retouchSubmitEnabled ==
    /\ editorShown /\ activeTab = "retouch"
    /\ ~(isLoading \/ trim(prompt) = "" \/ editHotspot = Null)

\* FilterPanel is not among the sources; it is given isLoading (App.tsx:605) and
\* the filter buttons are suppressed while busy (spec section 5).
filterButtonEnabled == editorShown /\ activeTab = "filters" /\ ~isLoading

\* AdjustmentSlider disabled={isLoading}; the feather slider also needs a vignette
sliderEnabled(k) ==
    /\ editorShown /\ activeTab = "adjust"
    /\ ~(isLoading \/ (k = "vignetteFeather" /\ adjustments["vignetteIntensity"] = 0))

\* Reset All: disabled={isLoading || !hasChanges}
resetAllEnabled == editorShown /\ activeTab = "adjust" /\ ~(isLoading \/ ~hasChanges)

\* Apply Adjustments: disabled={isLoading || !hasChanges}
applyAdjustmentsEnabled ==
    editorShown /\ activeTab = "adjust" /\ ~(isLoading \/ ~hasChanges)

\* Auto Enhance: disabled={isLoading}
autoEnhanceEnabled == editorShown /\ activeTab = "adjust" /\ ~isLoading

\* mutant of upscaleEnabled: the button ignores the busy flag
upscaleAlwaysEnabled == editorShown /\ activeTab = "enhance"

\* Upscale Image: disabled={isLoading}
upscaleEnabled == editorShown /\ activeTab = "enhance" /\ ~isLoading

\* CropPanel is not among the sources: only what App.tsx renders is required, the
\* handler's own conditions decide the rest.
cropPanelShown == editorShown /\ activeTab = "crop"

passportPanelShown == editorShown /\ activeTab = "passport"

\* Confirm Crop: shown in step cropping, disabled={isLoading || !isCropping}
confirmCropEnabled ==
    passportPanelShown /\ passportStep = "cropping" /\ ~(isLoading \/ ~isCropping)

\* Change Background: shown in step background, disabled={isLoading}
changeBackgroundEnabled ==
    passportPanelShown /\ passportStep = "background" /\ ~isLoading

\* Generate Printable Sheet: shown in step sheet, disabled={isLoading || ...}
sheetButtonEnabled(photoCount) ==
    /\ passportPanelShown
    /\ passportStep = "sheet"
    /\ ~(\/ isLoading
         \/ photoCount = <<>>
         \/ (~isNaN(parseInt(photoCount)) /\ parseInt(photoCount)[1] <= 0))

\* Start Over: rendered when step is neither cropping nor idle, disabled={isLoading}
startOverEnabled ==
    passportPanelShown /\ passportStep \notin {"cropping", "idle"} /\ ~isLoading

undoEnabled == editorShown /\ canUndo
redoEnabled == editorShown /\ canRedo
resetEnabled == editorShown /\ canUndo
uploadNewEnabled == editorShown

----------------------------------------------------------------------------
(* Pieces of handlers *)

\* the handlers of App run no function on its own: frame stays as it is
Ghost(name, n) == lastAct' = name /\ nav' = n /\ UNCHANGED frame

\* mutant of resetTransientState: setAdjustments(initialAdjustments) is left out
resetTransientStateKeepsSliders ==
    /\ crop' = Null
    /\ completedCrop' = Null
    /\ editHotspot' = Null
    /\ displayHotspot' = Null
    /\ UNCHANGED adjustments

resetTransientState ==
    /\ crop' = Null
    /\ completedCrop' = Null
    /\ editHotspot' = Null
    /\ displayHotspot' = Null
    /\ adjustments' = initialAdjustments

transientUnchanged ==
    UNCHANGED <<crop, completedCrop, editHotspot, displayHotspot, adjustments>>

\* mutant of addImageToHistory: the new image is pushed without the slice
addImageToHistoryNoSlice(h, i, newImageFile) ==
    [history |-> Append(h, newImageFile), historyIndex |-> Len(h)]

\* newHistory = history.slice(0, historyIndex + 1); newHistory.push(newImageFile)
\* h and i are the history and historyIndex of the closure that runs it
addImageToHistory(h, i, newImageFile) ==
    LET newHistory == Append(slice(h, 0, i + 1), newImageFile)
    IN  [history |-> newHistory, historyIndex |-> Len(newHistory) - 1]

\* the state changes of addImageToHistory run from a closure over (h, i)
commit(h, i, newImageFile, resetAdjustmentsPreview) ==
    /\ history' = addImageToHistory(h, i, newImageFile).history
    /\ historyIndex' = addImageToHistory(h, i, newImageFile).historyIndex
    /\ resetTransientState
    /\ (resetAdjustmentsPreview => adjustments' = initialAdjustments)

\* the run a commit starts: what the live history was, and how many entries
\* lay beyond the live cursor
commitNav(op, h, i) ==
    [kind |-> "commit", op |-> op, stale |-> (h # history \/ i # historyIndex),
     down |-> Len(history) - (historyIndex + 1), up |-> 0,
     base |-> historyIndex, hist |-> history, src |-> NoImage]

call(op, img) ==
    [op |-> op, image |-> img, history |-> history, historyIndex |-> historyIndex]

\* the pending composition of a sheet also holds the requested number of copies
sheetCall(img, photoCount) ==
    [op |-> "sheet", image |-> img, history |-> history,
     historyIndex |-> historyIndex, photoCount |-> photoCount]

removeAt(s, n) == SubSeq(s, 1, n - 1) \o SubSeq(s, n + 1, Len(s))

\* setIsLoading(true); setError(null); await generate...(image, ...)
issue(op, img) ==
    /\ isLoading' = TRUE
    /\ error' = NoError
    /\ pending' = Append(pending, call(op, img))
    /\ UNCHANGED <<history, historyIndex, prompt, activeTab, aspect,
                   passportStep, passportCroppedImage, nextImage>>
    /\ transientUnchanged

\* mutant of effectAspect: the passport branch does not lock the aspect ratio
effectAspectUnset(t) == Null

\* the activeTab effect (App.tsx:78): what it sets aspect to when the tab becomes t
effectAspect(t) == IF t = "passport" THEN PassportAspect ELSE Null

\* mutant of cropEncodes: a canvas of zero size encodes like any other
cropAlwaysEncodes(c) == TRUE

\* cropImageToFile: no 2D context throws; a canvas of zero size encodes to
\* "data:," which dataURLtoFile rejects (no MIME type)
cropEncodes(c) == c.width > 0 /\ c.height > 0

errorOf(op) ==
    CASE op = "edit" -> "Failed to generate the image."
      [] op = "filter" -> "Failed to apply the filter."
      [] op = "adjust" -> "Failed to apply adjustment."
      [] op = "autoAdjust" -> "Failed to auto-adjust."
      [] op = "upscale" -> "Failed to upscale image."
      [] op = "passport" -> "Failed to change passport background."
      [] OTHER -> "Could not load image to generate sheet."

----------------------------------------------------------------------------
(* Initial state: the state after the first render and its effects *)

Init ==
    /\ history = <<>>
    /\ historyIndex = -1
    /\ prompt = ""
    /\ isLoading = FALSE
    /\ error = NoError
    /\ editHotspot = Null
    /\ displayHotspot = Null
    /\ activeTab = "retouch"
    /\ crop = Null
    /\ completedCrop = Null
    /\ aspect = Null
    /\ adjustments = initialAdjustments
    /\ passportStep = "idle"
    /\ passportCroppedImage = NoImage
    /\ pending = <<>>
    /\ nextImage = 1
    /\ lastAct = "init"
    /\ nav = NoNav
    /\ frame = NoFrame

----------------------------------------------------------------------------
(* Upload, tabs and the inputs of the panels *)

\* mutant of handleImageUpload: the file is appended after the cursor instead
\* of replacing the history
handleImageUploadAppends ==
    /\ nextImage <= MaxImages
    /\ error' = NoError
    /\ history' = Append(SubSeq(history, 1, historyIndex + 1), nextImage)
    /\ historyIndex' = historyIndex + 1
    /\ activeTab' = "retouch"
    /\ resetTransientState
    /\ passportStep' = "idle"
    /\ passportCroppedImage' = NoImage
    /\ aspect' = IF activeTab # "retouch" THEN effectAspect("retouch") ELSE aspect
    /\ nextImage' = nextImage + 1
    /\ UNCHANGED <<prompt, isLoading, pending>>
    /\ Ghost("upload", NoNav)

\* handleFileSelect -> handleImageUpload, then the activeTab effect if the tab changed
handleImageUpload ==
    /\ nextImage <= MaxImages
    /\ error' = NoError
    /\ history' = <<nextImage>>
    /\ historyIndex' = 0
    /\ activeTab' = "retouch"
    /\ resetTransientState
    /\ passportStep' = "idle"
    /\ passportCroppedImage' = NoImage
    /\ aspect' = IF activeTab # "retouch" THEN effectAspect("retouch") ELSE aspect
    /\ nextImage' = nextImage + 1
    /\ UNCHANGED <<prompt, isLoading, pending>>
    /\ Ghost("upload", NoNav)

\* the file input of the start screen
upload == uploadEnabled /\ handleImageUpload

\* onClick={() => setActiveTab(tab.id)} and the activeTab effect
setActiveTab(t) ==
    /\ editorShown
    /\ t # activeTab
    /\ activeTab' = t
    /\ aspect' = effectAspect(t)
    /\ IF t = "passport"
         THEN /\ passportStep' = "cropping"
              /\ resetTransientState
              /\ UNCHANGED passportCroppedImage
         ELSE /\ passportStep' = "idle"
              /\ passportCroppedImage' = NoImage
              /\ transientUnchanged
    /\ UNCHANGED <<history, historyIndex, prompt, isLoading, error, pending, nextImage>>
    /\ Ghost("tab", NoNav)

\* "Try Again" on the error panel: setError(null)
dismissError ==
    /\ errorShown
    /\ error' = NoError
    /\ UNCHANGED <<history, historyIndex, prompt, isLoading, activeTab, aspect,
                   passportStep, passportCroppedImage, pending, nextImage>>
    /\ transientUnchanged
    /\ Ghost("input", NoNav)

handleImageClick(p) ==
    /\ imageClickable
    /\ ~showCropper
    /\ activeTab = "retouch"
    /\ displayHotspot' = p
    /\ editHotspot' = p
    /\ UNCHANGED <<history, historyIndex, prompt, isLoading, error, activeTab, crop,
                   completedCrop, aspect, adjustments, passportStep,
                   passportCroppedImage, pending, nextImage>>
    /\ Ghost("input", NoNav)

\* onChange={(e) => setPrompt(e.target.value)}
setPrompt(p) ==
    /\ promptInputEnabled
    /\ p # prompt
    /\ prompt' = p
    /\ UNCHANGED <<history, historyIndex, isLoading, error, activeTab, aspect,
                   passportStep, passportCroppedImage, pending, nextImage>>
    /\ transientUnchanged
    /\ Ghost("input", NoNav)

\* A crop gesture on ReactCrop: onChange={c => setCrop(c)} while the pointer
\* moves, then onComplete={c => setCompletedCrop(c)} with the same rectangle when
\* it is released.  Nothing else runs in between: the image takes no pointer
\* input while a call is pending, so no completion falls inside a gesture.
dragCrop(c) ==
    /\ imageClickable
    /\ showCropper
    /\ crop' = <<c>>
    /\ completedCrop' = <<c>>
    /\ UNCHANGED <<history, historyIndex, prompt, isLoading, error, editHotspot,
                   displayHotspot, activeTab, aspect, adjustments,
                   passportStep, passportCroppedImage, pending, nextImage>>
    /\ Ghost("input", NoNav)

\* CropPanel onSetAspect={setAspect}
setAspect(a) ==
    /\ cropPanelShown
    /\ a # aspect
    /\ aspect' = a
    /\ UNCHANGED <<history, historyIndex, prompt, isLoading, error, activeTab,
                   passportStep, passportCroppedImage, pending, nextImage>>
    /\ transientUnchanged
    /\ Ghost("input", NoNav)

\* AdjustmentPanel handleValueChange (a slider moved, or its Reset pressed)
handleValueChange(k, v) ==
    /\ sliderEnabled(k)
    /\ adjustments[k] # v
    /\ adjustments' = [adjustments EXCEPT ![k] = v]
    /\ UNCHANGED <<history, historyIndex, prompt, isLoading, error, editHotspot,
                   displayHotspot, activeTab, crop, completedCrop, aspect,
                   passportStep, passportCroppedImage, pending, nextImage>>
    /\ Ghost("input", NoNav)

\* AdjustmentPanel handleResetAll
handleResetAll ==
    /\ resetAllEnabled
    /\ adjustments' = initialAdjustments
    /\ UNCHANGED <<history, historyIndex, prompt, isLoading, error, editHotspot,
                   displayHotspot, activeTab, crop, completedCrop, aspect,
                   passportStep, passportCroppedImage, pending, nextImage>>
    /\ Ghost("input", NoNav)

----------------------------------------------------------------------------
(* Handlers that issue a generator call *)

\* a handler that only surfaces a validation error
rejectWith(msg) ==
    /\ error' = msg
    /\ UNCHANGED <<history, historyIndex, prompt, isLoading, activeTab, aspect,
                   passportStep, passportCroppedImage, pending, nextImage>>
    /\ transientUnchanged
    /\ Ghost("reject", NoNav)

handleGenerate ==
    IF currentImage = NoImage
      THEN rejectWith("No image loaded to edit.")
      ELSE IF trim(prompt) = ""
        THEN rejectWith("Please enter a description for your edit.")
        ELSE IF editHotspot = Null
          THEN rejectWith("Please click on the image to select an area to edit.")
          ELSE issue("edit", currentImage) /\ Ghost("issue", NoNav)

\* mutant of handleCall: the call is issued without looking at the image
handleCallUnguarded(op, img) == issue(op, img) /\ Ghost("issue", NoNav)

\* a handler that starts `if (!image) return;` and then issues the call
handleCall(op, img) ==
    IF img = NoImage
      THEN UNCHANGED progVars /\ Ghost("callIgnored", NoNav)
      ELSE issue(op, img) /\ Ghost("issue", NoNav)

handleApplyFilter == handleCall("filter", currentImage)
handleApplyAdjustment == handleCall("adjust", currentImage)
handleAutoAdjust == handleCall("autoAdjust", currentImage)
handleUpscale == handleCall("upscale", currentImage)
handlePassportBgChange == handleCall("passport", passportCroppedImage)

\* mutant of handleApply: onApplyAdjustment is called whatever the instruction
handleApplyAlways == handleApplyAdjustment

\* AdjustmentPanel handleApply: if (generatedPrompt) onApplyAdjustment(generatedPrompt)
handleApply ==
    IF generatedPromptEmpty(adjustments)
      THEN UNCHANGED progVars /\ Ghost("applyIgnored", NoNav)
      ELSE handleApplyAdjustment

\* the retouch form submitted through its button
submitRetouch == retouchSubmitEnabled /\ handleGenerate
applyFilter == filterButtonEnabled /\ handleApplyFilter
applyAdjustments == applyAdjustmentsEnabled /\ handleApply
autoEnhance == autoEnhanceEnabled /\ handleAutoAdjust
upscale == upscaleEnabled /\ handleUpscale
changeBackground == changeBackgroundEnabled /\ handlePassportBgChange

\* mutant of handleSheetGenerate: no setIsLoading(false) when there is no context
handleSheetGenerateStaysBusy(photoCount, ctxOk) ==
    IF currentImageUrl = NoImage
      THEN UNCHANGED progVars /\ Ghost("callIgnored", NoNav)
      ELSE IF ~ctxOk
        THEN /\ error' = "Could not create canvas for sheet."
             /\ isLoading' = TRUE
             /\ UNCHANGED <<history, historyIndex, prompt, activeTab, aspect,
                            passportStep, passportCroppedImage, pending, nextImage>>
             /\ transientUnchanged
             /\ Ghost("sheetNoContext", NoNav)
        ELSE /\ isLoading' = TRUE
             /\ pending' = Append(pending, sheetCall(currentImageUrl, photoCount))
             /\ UNCHANGED <<history, historyIndex, prompt, error, activeTab, aspect,
                            passportStep, passportCroppedImage, nextImage>>
             /\ transientUnchanged
             /\ Ghost("issue", NoNav)

\* handleSheetGenerate up to the point where it waits for the image to decode;
\* ctxOk: whether canvas.getContext('2d') gave a context
handleSheetGenerate(photoCount, ctxOk) ==
    IF currentImageUrl = NoImage
      THEN UNCHANGED progVars /\ Ghost("callIgnored", NoNav)
      ELSE IF ~ctxOk
        THEN /\ error' = "Could not create canvas for sheet."
             /\ isLoading' = FALSE
             /\ UNCHANGED <<history, historyIndex, prompt, activeTab, aspect,
                            passportStep, passportCroppedImage, pending, nextImage>>
             /\ transientUnchanged
             /\ Ghost("sheetNoContext", NoNav)
        ELSE /\ isLoading' = TRUE
             /\ pending' = Append(pending, sheetCall(currentImageUrl, photoCount))
             /\ UNCHANGED <<history, historyIndex, prompt, error, activeTab, aspect,
                            passportStep, passportCroppedImage, nextImage>>
             /\ transientUnchanged
             /\ Ghost("issue", NoNav)

\* onClick of the Generate Sheet button (Header.tsx:185-190)
sheetButtonClick(photoCount) ==
    LET count == parseInt(photoCount) IN
    IF ~isNaN(count) /\ count[1] > 0
      THEN \E ctxOk \in BOOLEAN : handleSheetGenerate(count[1], ctxOk)
      ELSE UNCHANGED progVars /\ Ghost("sheetIgnored", NoNav)

generateSheet ==
    \E photoCount \in PhotoCountInputs :
        sheetButtonEnabled(photoCount) /\ sheetButtonClick(photoCount)

----------------------------------------------------------------------------
(* Completions of what is in flight *)

\* the code after `await` in the try block of the five generator handlers
resolve(n) ==
    LET c == pending[n] IN
    /\ c.op # "sheet"
    /\ nextImage <= MaxImages
    /\ commit(c.history, c.historyIndex, nextImage, c.op \in {"adjust", "autoAdjust"})
    /\ prompt' = IF c.op = "edit" THEN "" ELSE prompt
    /\ passportStep' = IF c.op = "passport" THEN "sheet" ELSE passportStep
    /\ isLoading' = FALSE
    /\ pending' = removeAt(pending, n)
    /\ nextImage' = nextImage + 1
    /\ UNCHANGED <<error, activeTab, aspect, passportCroppedImage>>
    /\ Ghost("resolve", commitNav(c.op, c.history, c.historyIndex))

\* mutant of fail: the failure path also resets the transient state
failResetsTransient(n) ==
    LET c == pending[n] IN
    /\ c.op # "sheet"
    /\ error' = errorOf(c.op)
    /\ isLoading' = FALSE
    /\ pending' = removeAt(pending, n)
    /\ resetTransientState
    /\ UNCHANGED <<history, historyIndex, prompt, activeTab, aspect,
                   passportStep, passportCroppedImage, nextImage>>
    /\ Ghost("fail", [NoNav EXCEPT !.kind = "fail", !.op = c.op])

\* catch (err) { setError(...) } finally { setIsLoading(false) }
fail(n) ==
    LET c == pending[n] IN
    /\ c.op # "sheet"
    /\ error' = errorOf(c.op)
    /\ isLoading' = FALSE
    /\ pending' = removeAt(pending, n)
    /\ UNCHANGED <<history, historyIndex, prompt, activeTab, aspect,
                   passportStep, passportCroppedImage, nextImage>>
    /\ transientUnchanged
    /\ Ghost("fail", [NoNav EXCEPT !.kind = "fail", !.op = c.op])

\* img.onload of handleSheetGenerate
sheetLoad(n) ==
    LET c == pending[n] IN
    /\ c.op = "sheet"
    /\ nextImage <= MaxImages
    /\ commit(c.history, c.historyIndex, nextImage, FALSE)
    /\ isLoading' = FALSE
    /\ passportStep' = "idle"
    /\ pending' = removeAt(pending, n)
    /\ nextImage' = nextImage + 1
    /\ UNCHANGED <<prompt, error, activeTab, aspect, passportCroppedImage>>
    /\ Ghost("sheetLoad", commitNav(c.op, c.history, c.historyIndex))

\* mutant of sheetError: onerror reports the error but leaves the busy flag set
sheetErrorStaysBusy(n) ==
    LET c == pending[n] IN
    /\ c.op = "sheet"
    /\ error' = errorOf(c.op)
    /\ pending' = removeAt(pending, n)
    /\ UNCHANGED <<history, historyIndex, prompt, isLoading, activeTab, aspect,
                   passportStep, passportCroppedImage, nextImage>>
    /\ transientUnchanged
    /\ Ghost("sheetError", [NoNav EXCEPT !.kind = "fail", !.op = c.op])

\* img.onerror of handleSheetGenerate
sheetError(n) ==
    LET c == pending[n] IN
    /\ c.op = "sheet"
    /\ error' = errorOf(c.op)
    /\ isLoading' = FALSE
    /\ pending' = removeAt(pending, n)
    /\ UNCHANGED <<history, historyIndex, prompt, activeTab, aspect,
                   passportStep, passportCroppedImage, nextImage>>
    /\ transientUnchanged
    /\ Ghost("sheetError", [NoNav EXCEPT !.kind = "fail", !.op = c.op])

complete ==
    \E n \in 1..Len(pending) : resolve(n) \/ fail(n) \/ sheetLoad(n) \/ sheetError(n)

----------------------------------------------------------------------------
(* Local raster handlers *)

\* ctxOk: whether cropImageToFile got a 2D context
handleApplyCrop(ctxOk) ==
    IF completedCrop = Null
      THEN UNCHANGED vars
      ELSE IF ctxOk /\ cropEncodes(completedCrop[1])
        THEN /\ nextImage <= MaxImages
             /\ commit(history, historyIndex, nextImage, FALSE)
             /\ nextImage' = nextImage + 1
             /\ UNCHANGED <<prompt, isLoading, error, activeTab, aspect,
                            passportStep, passportCroppedImage, pending>>
             /\ Ghost("applyCrop", commitNav("crop", history, historyIndex))
        ELSE /\ error' = "Failed to apply crop."
             /\ UNCHANGED <<history, historyIndex, prompt, isLoading, activeTab,
                            aspect, passportStep, passportCroppedImage, pending,
                            nextImage>>
             /\ transientUnchanged
             /\ Ghost("applyCropFailed", NoNav)

applyCrop == cropPanelShown /\ \E ctxOk \in BOOLEAN : handleApplyCrop(ctxOk)

\* mutant of handlePassportCrop: the crop is also committed to the history
handlePassportCropCommits(ctxOk) ==
    IF completedCrop = Null
      THEN UNCHANGED vars
      ELSE IF ctxOk /\ cropEncodes(completedCrop[1])
        THEN /\ nextImage <= MaxImages
             /\ passportCroppedImage' = nextImage
             /\ passportStep' = "background"
             /\ commit(history, historyIndex, nextImage, FALSE)
             /\ nextImage' = nextImage + 1
             /\ UNCHANGED <<prompt, isLoading, error, activeTab, aspect, pending>>
             /\ Ghost("passportCrop", [NoNav EXCEPT !.kind = "crop", !.src = imgRefCurrent])
        ELSE /\ error' = "Failed to crop for passport."
             /\ UNCHANGED <<history, historyIndex, prompt, isLoading, activeTab,
                            aspect, passportStep, passportCroppedImage, pending,
                            nextImage>>
             /\ transientUnchanged
             /\ Ghost("passportCropFailed", NoNav)

\* the image handlePassportCrop crops is imgRef.current, the <img> of the cropper
handlePassportCrop(ctxOk) ==
    IF completedCrop = Null
      THEN UNCHANGED vars
      ELSE IF ctxOk /\ cropEncodes(completedCrop[1])
        THEN /\ nextImage <= MaxImages
             /\ passportCroppedImage' = nextImage
             /\ passportStep' = "background"
             /\ resetTransientState
             /\ nextImage' = nextImage + 1
             /\ UNCHANGED <<history, historyIndex, prompt, isLoading, error,
                            activeTab, aspect, pending>>
             /\ Ghost("passportCrop", [NoNav EXCEPT !.kind = "crop", !.src = imgRefCurrent])
        ELSE /\ error' = "Failed to crop for passport."
             /\ UNCHANGED <<history, historyIndex, prompt, isLoading, activeTab,
                            aspect, passportStep, passportCroppedImage, pending,
                            nextImage>>
             /\ transientUnchanged
             /\ Ghost("passportCropFailed", NoNav)

confirmCrop == confirmCropEnabled /\ \E ctxOk \in BOOLEAN : handlePassportCrop(ctxOk)

\* mutant of handlePassportReset: the cropped-passport image is kept
handlePassportResetKeepsImage ==
    /\ passportStep' = "cropping"
    /\ resetTransientState
    /\ UNCHANGED <<history, historyIndex, prompt, isLoading, error, activeTab,
                   aspect, pending, nextImage, passportCroppedImage>>
    /\ Ghost("startOver", NoNav)

handlePassportReset ==
    /\ passportStep' = "cropping"
    /\ passportCroppedImage' = NoImage
    /\ resetTransientState
    /\ UNCHANGED <<history, historyIndex, prompt, isLoading, error, activeTab,
                   aspect, pending, nextImage>>
    /\ Ghost("startOver", NoNav)

startOver == startOverEnabled /\ handlePassportReset

----------------------------------------------------------------------------
(* History navigation *)

undoNav ==
    IF nav.kind = "undo" /\ nav.up = 0
      THEN [nav EXCEPT !.down = @ + 1]
      ELSE [NoNav EXCEPT !.kind = "undo", !.down = 1, !.base = historyIndex,
                         !.hist = history]

redoNav ==
    IF nav.kind \in {"undo", "reset"} /\ nav.up < nav.down
      THEN [nav EXCEPT !.up = @ + 1]
      ELSE NoNav

resetNav ==
    [NoNav EXCEPT !.kind = "reset", !.down = historyIndex, !.base = historyIndex,
                  !.hist = history]

\* mutant of handleUndo: with nothing to undo the transient state is still reset
handleUndoAlwaysResets ==
    IF canUndo
      THEN /\ historyIndex' = historyIndex - 1
           /\ resetTransientState
           /\ UNCHANGED <<history, prompt, isLoading, error, activeTab, aspect,
                          passportStep, passportCroppedImage, pending, nextImage>>
           /\ Ghost("undo", undoNav)
      ELSE /\ resetTransientState
           /\ UNCHANGED <<history, historyIndex, prompt, isLoading, error,
                          activeTab, aspect, passportStep, passportCroppedImage,
                          pending, nextImage>>
           /\ Ghost("navIgnored", nav)

handleUndo ==
    IF canUndo
      THEN /\ historyIndex' = historyIndex - 1
           /\ resetTransientState
           /\ UNCHANGED <<history, prompt, isLoading, error, activeTab, aspect,
                          passportStep, passportCroppedImage, pending, nextImage>>
           /\ Ghost("undo", undoNav)
      ELSE UNCHANGED progVars /\ Ghost("navIgnored", nav)

\* mutant of handleRedo: redo jumps to the last entry
handleRedoToEnd ==
    IF canRedo
      THEN /\ historyIndex' = Len(history) - 1
           /\ resetTransientState
           /\ UNCHANGED <<history, prompt, isLoading, error, activeTab, aspect,
                          passportStep, passportCroppedImage, pending, nextImage>>
           /\ Ghost("redo", redoNav)
      ELSE UNCHANGED progVars /\ Ghost("navIgnored", nav)

handleRedo ==
    IF canRedo
      THEN /\ historyIndex' = historyIndex + 1
           /\ resetTransientState
           /\ UNCHANGED <<history, prompt, isLoading, error, activeTab, aspect,
                          passportStep, passportCroppedImage, pending, nextImage>>
           /\ Ghost("redo", redoNav)
      ELSE UNCHANGED progVars /\ Ghost("navIgnored", nav)

\* mutant of handleReset: the entries after the original are dropped
handleResetTruncates ==
    IF Len(history) > 0
      THEN /\ historyIndex' = 0
           /\ history' = SubSeq(history, 1, 1)
           /\ error' = NoError
           /\ resetTransientState
           /\ UNCHANGED <<prompt, isLoading, activeTab, aspect,
                          passportStep, passportCroppedImage, pending, nextImage>>
           /\ Ghost("reset", resetNav)
      ELSE UNCHANGED progVars /\ Ghost("navIgnored", nav)

handleReset ==
    IF Len(history) > 0
      THEN /\ historyIndex' = 0
           /\ error' = NoError
           /\ resetTransientState
           /\ UNCHANGED <<history, prompt, isLoading, activeTab, aspect,
                          passportStep, passportCroppedImage, pending, nextImage>>
           /\ Ghost("reset", resetNav)
      ELSE UNCHANGED progVars /\ Ghost("navIgnored", nav)

handleUploadNew ==
    /\ history' = <<>>
    /\ historyIndex' = -1
    /\ error' = NoError
    /\ prompt' = ""
    /\ resetTransientState
    /\ passportStep' = "idle"
    /\ passportCroppedImage' = NoImage
    /\ UNCHANGED <<isLoading, activeTab, aspect, pending, nextImage>>
    /\ Ghost("uploadNew", NoNav)

undo == undoEnabled /\ handleUndo
redo == redoEnabled /\ handleRedo
reset == resetEnabled /\ handleReset
uploadNew == uploadNewEnabled /\ handleUploadNew

----------------------------------------------------------------------------
(* Specifications *)

Next ==
    \/ upload
    \/ \E t \in Tab : setActiveTab(t)
    \/ dismissError
    \/ \E p \in HotspotInputs : handleImageClick(p)
    \/ \E p \in PromptInputs : setPrompt(p)
    \/ \E c \in CropInputs : dragCrop(c)
    \/ \E a \in AspectInputs : setAspect(a)
    \/ \E kv \in SliderInputs : handleValueChange(kv[1], kv[2])
    \/ handleResetAll
    \/ submitRetouch
    \/ applyFilter
    \/ applyAdjustments
    \/ autoEnhance
    \/ upscale
    \/ changeBackground
    \/ generateSheet
    \/ \E n \in 1..Len(pending) : resolve(n)
    \/ \E n \in 1..Len(pending) : fail(n)
    \/ \E n \in 1..Len(pending) : sheetLoad(n)
    \/ \E n \in 1..Len(pending) : sheetError(n)
    \/ applyCrop
    \/ confirmCrop
    \/ startOver
    \/ undo
    \/ redo
    \/ reset
    \/ uploadNew

Spec == Init /\ [][Next]_vars

\* every call that was issued is answered: the generator resolves or rejects, the
\* image decode loads or errors
FairSpec == Spec /\ WF_vars(complete)

\* the retouch handler invoked while not busy whatever the form's button shows
requestRetouch == ~isLoading /\ handleGenerate

\* handlePassportCrop invoked with the Confirm Crop button disabled for want of
\* a crop
requestPassportCrop ==
    /\ passportPanelShown
    /\ passportStep = "cropping"
    /\ ~isLoading
    /\ \E ctxOk \in BOOLEAN : handlePassportCrop(ctxOk)

\* the onClick of Generate Sheet invoked with the button disabled by the count
requestSheet ==
    /\ passportPanelShown
    /\ passportStep = "sheet"
    /\ ~isLoading
    /\ \E photoCount \in PhotoCountInputs : sheetButtonClick(photoCount)

\* handlePassportReset invoked in any step of the workflow (Start Over is
\* rendered in background and sheet only)
requestPassportReset == passportPanelShown /\ ~isLoading /\ handlePassportReset

\* handleImageUpload invoked while the editor, not the start screen, is shown
requestUpload == editorShown /\ handleImageUpload

\* the navigation handlers invoked when there is nothing for them to do (their
\* buttons are then disabled or not rendered)
requestUndo == ~canUndo /\ pending = <<>> /\ handleUndo
requestRedo == ~canRedo /\ pending = <<>> /\ handleRedo
requestReset == history = <<>> /\ pending = <<>> /\ handleReset

\* the handlers that issue a call, invoked while there is no image (their
\* panels are then not rendered)
requestFilter == history = <<>> /\ handleApplyFilter
requestAdjustment == history = <<>> /\ handleApplyAdjustment
requestAutoAdjust == history = <<>> /\ handleAutoAdjust
requestUpscale == history = <<>> /\ handleUpscale
requestPassportBgChange == history = <<>> /\ handlePassportBgChange
requestSheetGenerate ==
    /\ history = <<>>
    /\ \E photoCount \in 1..2, ctxOk \in BOOLEAN : handleSheetGenerate(photoCount, ctxOk)

NextRequests ==
    \/ Next
    \/ requestRetouch
    \/ requestPassportCrop
    \/ requestSheet
    \/ requestPassportReset
    \/ requestUpload
    \/ requestUndo
    \/ requestRedo
    \/ requestReset
    \/ requestFilter
    \/ requestAdjustment
    \/ requestAutoAdjust
    \/ requestUpscale
    \/ requestPassportBgChange
    \/ requestSheetGenerate

SpecRequests == Init /\ [][NextRequests]_vars

----------------------------------------------------------------------------
(* Sheet composition: handleSheetGenerate and its img.onload, iteration by  *)
(* iteration.  Lengths are in units of 1/100000 px, in which every length   *)
(* of the code is a whole number.  No comparison of the loop comes closer   *)
(* than 3 px to a tie, so the rounding of the code's doubles decides none.  *)

\* largest number of photos asked for
MaxPhotoCount == 31

PxUnit == 100000

DPI == 300
SheetSize == {"4x6", "5x7", "A4"}
Layout == {"portrait", "landscape"}

\* SIZES, in hundredths of an inch
SIZES ==
    [sz \in SheetSize |->
        CASE sz = "4x6" -> [w |-> 400, h |-> 600]
          [] sz = "5x7" -> [w |-> 500, h |-> 700]
          [] OTHER -> [w |-> 827, h |-> 1169]]

PASSPORT_SIZE_MM == [w |-> 35, h |-> 45]

\* MM_TO_IN = 0.0393701, in units of 1/10000000 inch
MM_TO_IN == 393701

\* if (layout === 'landscape') [sheetW_in, sheetH_in] = [sheetH_in, sheetW_in]
sheetW_in(sheetSize, layout) ==
    IF layout = "landscape" THEN SIZES[sheetSize].h ELSE SIZES[sheetSize].w
sheetH_in(sheetSize, layout) ==
    IF layout = "landscape" THEN SIZES[sheetSize].w ELSE SIZES[sheetSize].h

sheetW_px(sheetSize, layout) == sheetW_in(sheetSize, layout) * DPI * (PxUnit \div 100)
sheetH_px(sheetSize, layout) == sheetH_in(sheetSize, layout) * DPI * (PxUnit \div 100)
photoW_px == PASSPORT_SIZE_MM.w * MM_TO_IN * ((DPI * PxUnit) \div 10000000)
photoH_px == PASSPORT_SIZE_MM.h * MM_TO_IN * ((DPI * PxUnit) \div 10000000)
margin_px == (DPI * PxUnit) \div 10

\* the calls made on the 2D context, in order
fillRect(x, y, w, h) == [op |-> "fillRect", x |-> x, y |-> y, w |-> w, h |-> h]
strokeRect(x, y, w, h) == [op |-> "strokeRect", x |-> x, y |-> y, w |-> w, h |-> h]
drawImage(x, y, w, h) == [op |-> "drawImage", x |-> x, y |-> y, w |-> w, h |-> h]

\* mutant of offRight: the wrap test leaves the right margin out
offRightNoMargin(x, sheetW) == x + photoW_px > sheetW

\* x + photoW_px + margin_px > sheetW_px
offRight(x, sheetW) == x + photoW_px + margin_px > sheetW

\* mutant of offBottom: the loop never stops for want of room
offBottomNever(y, sheetH) == FALSE

\* y + photoH_px + margin_px > sheetH_px
offBottom(y, sheetH) == y + photoH_px + margin_px > sheetH

\* mutant of nextRow: rows follow each other without a margin
nextRowNoMargin(y) == y + photoH_px

\* y += photoH_px + margin_px
nextRow(y) == y + photoH_px + margin_px

\* the locals of img.onload when it starts, after handleSheetGenerate has
\* filled the canvas with white
onloadFrame(sheetSize, layout, photoCount) ==
    [fn |-> "onload", sheetSize |-> sheetSize, layout |-> layout,
     photoCount |-> photoCount, i |-> 0, x |-> margin_px, y |-> margin_px,
     canvas |-> <<fillRect(0, 0, sheetW_px(sheetSize, layout),
                           sheetH_px(sheetSize, layout))>>,
     done |-> FALSE]

\* The source image of a sheet has just decoded: image 1 was uploaded, image 2
\* is its passport crop, image 3 the background result, and Generate Sheet was
\* pressed with some size, layout and count.
SheetInit ==
    /\ history = <<1, 3>>
    /\ historyIndex = 1
    /\ prompt = ""
    /\ isLoading = TRUE
    /\ error = NoError
    /\ editHotspot = Null
    /\ displayHotspot = Null
    /\ activeTab = "passport"
    /\ crop = Null
    /\ completedCrop = Null
    /\ aspect = PassportAspect
    /\ adjustments = initialAdjustments
    /\ passportStep = "sheet"
    /\ passportCroppedImage = 2
    /\ nextImage = 4
    /\ lastAct = "issue"
    /\ nav = NoNav
    /\ \E sheetSize \in SheetSize, layout \in Layout, photoCount \in 1..MaxPhotoCount :
          /\ pending = <<sheetCall(currentImageUrl, photoCount)>>
          /\ frame = onloadFrame(sheetSize, layout, photoCount)

\* one iteration of for (let i = 0; i < photoCount; i++) { ... }
onloadIteration ==
    LET sheetW == sheetW_px(frame.sheetSize, frame.layout)
        sheetH == sheetH_px(frame.sheetSize, frame.layout)
        wrap == offRight(frame.x, sheetW)
        x == IF wrap THEN margin_px ELSE frame.x
        y == IF wrap THEN nextRow(frame.y) ELSE frame.y
    IN  /\ frame.fn = "onload"
        /\ ~frame.done
        /\ frame.i < frame.photoCount
        /\ frame' =
             IF offBottom(y, sheetH)
               THEN [frame EXCEPT !.x = x, !.y = y, !.done = TRUE]
               ELSE [frame EXCEPT
                       !.canvas = @ \o <<strokeRect(x, y, photoW_px, photoH_px),
                                         drawImage(x, y, photoW_px, photoH_px)>>,
                       !.x = x + photoW_px + margin_px,
                       !.y = y,
                       !.i = @ + 1]
        /\ UNCHANGED <<progVars, lastAct, nav>>

\* the loop condition i < photoCount fails
onloadLoopEnd ==
    /\ frame.fn = "onload"
    /\ ~frame.done
    /\ frame.i >= frame.photoCount
    /\ frame' = [frame EXCEPT !.done = TRUE]
    /\ UNCHANGED <<progVars, lastAct, nav>>

\* what follows the loop: toDataURL, addImageToHistory, setIsLoading(false),
\* setPassportStep('idle')
onloadCommit ==
    /\ frame.fn = "onload"
    /\ frame.done
    /\ \E n \in 1..Len(pending) : sheetLoad(n)

SheetNext == onloadIteration \/ onloadLoopEnd \/ onloadCommit

SheetSpec == SheetInit /\ [][SheetNext]_vars

----------------------------------------------------------------------------
(* cropImageToFile, statement by statement *)

\* largest ratio of the natural size of an image to its displayed size
MaxScale == 3

\* the displayed size of the image element
DisplayedSizes == {[width |-> 100, height |-> 150]}

\* crop rectangles in displayed pixels (PixelCrop)
PixelCropInputs ==
    {[x |-> 10, y |-> 20, width |-> w, height |-> h] : w \in {0, 50, 70}, h \in {0, 90}}

\* window.devicePixelRatio; 0 stands for a missing value
DevicePixelRatios == {0, 1, 2}

\* the activation of cropImageToFile(image, crop, fileName) at its first statement
cropFrame(image, pixelCrop, devicePixelRatio) ==
    [fn |-> "cropImageToFile", pc |-> "start", image |-> image, crop |-> pixelCrop,
     devicePixelRatio |-> devicePixelRatio, scaleX |-> 0, scaleY |-> 0,
     pixelRatio |-> 0, canvas |-> [width |-> 0, height |-> 0], drawn |-> <<>>]

CropInit ==
    /\ history = <<1>>
    /\ historyIndex = 0
    /\ prompt = ""
    /\ isLoading = FALSE
    /\ error = NoError
    /\ editHotspot = Null
    /\ displayHotspot = Null
    /\ activeTab = "crop"
    /\ crop = Null
    /\ completedCrop = Null
    /\ aspect = Null
    /\ adjustments = initialAdjustments
    /\ passportStep = "idle"
    /\ passportCroppedImage = NoImage
    /\ pending = <<>>
    /\ nextImage = 2
    /\ lastAct = "input"
    /\ nav = NoNav
    /\ \E size \in DisplayedSizes, scale \in 1..MaxScale, pixelCrop \in PixelCropInputs,
          devicePixelRatio \in DevicePixelRatios :
          frame = cropFrame([naturalWidth |-> scale * size.width,
                             naturalHeight |-> scale * size.height,
                             width |-> size.width, height |-> size.height],
                            pixelCrop, devicePixelRatio)

\* scaleX, scaleY; canvas.width = crop.width; canvas.height = crop.height;
\* getContext('2d') gave a context
cropCreateCanvas ==
    /\ frame.fn = "cropImageToFile"
    /\ frame.pc = "start"
    /\ frame' = [frame EXCEPT
                   !.scaleX = frame.image.naturalWidth \div frame.image.width,
                   !.scaleY = frame.image.naturalHeight \div frame.image.height,
                   !.canvas = [width |-> frame.crop.width, height |-> frame.crop.height],
                   !.pc = "context"]
    /\ UNCHANGED <<progVars, lastAct, nav>>

\* if (!ctx) throw new Error('Could not get canvas context')
cropNoContext ==
    /\ frame.fn = "cropImageToFile"
    /\ frame.pc = "start"
    /\ frame' = [frame EXCEPT
                   !.scaleX = frame.image.naturalWidth \div frame.image.width,
                   !.scaleY = frame.image.naturalHeight \div frame.image.height,
                   !.canvas = [width |-> frame.crop.width, height |-> frame.crop.height],
                   !.pc = "thrown"]
    /\ UNCHANGED <<progVars, lastAct, nav>>

\* pixelRatio, the second sizing of the canvas, setTransform and drawImage
cropDraw ==
    LET pixelRatio == IF frame.devicePixelRatio # 0 THEN frame.devicePixelRatio ELSE 1 IN
    /\ frame.fn = "cropImageToFile"
    /\ frame.pc = "context"
    /\ frame' = [frame EXCEPT
                   !.pixelRatio = pixelRatio,
                   !.canvas = [width |-> frame.crop.width * pixelRatio,
                               height |-> frame.crop.height * pixelRatio],
                   !.drawn = <<[sx |-> frame.crop.x * frame.scaleX,
                                sy |-> frame.crop.y * frame.scaleY,
                                sw |-> frame.crop.width * frame.scaleX,
                                sh |-> frame.crop.height * frame.scaleY,
                                dx |-> 0, dy |-> 0,
                                dw |-> frame.crop.width, dh |-> frame.crop.height]>>,
                   !.pc = "drawn"]
    /\ UNCHANGED <<progVars, lastAct, nav>>

\* canvas.toDataURL('image/png') and dataURLtoFile
cropToFile ==
    /\ frame.fn = "cropImageToFile"
    /\ frame.pc = "drawn"
    /\ frame' = [frame EXCEPT
                   !.pc = IF cropEncodes(frame.canvas) THEN "returned" ELSE "thrown"]
    /\ UNCHANGED <<progVars, lastAct, nav>>

CropNext == cropCreateCanvas \/ cropNoContext \/ cropDraw \/ cropToFile

CropSpec == CropInit /\ [][CropNext]_vars

----------------------------------------------------------------------------
(* The translator of the adjustment panel: valueToText and the generatedPrompt *)
(* memo.  A text is the sequence of the pieces the code concatenates.         *)

\* the range of a slider (AdjustmentSlider min, max; the feather slider has min 0)
SliderMin == -100
SliderMax == 100

\* Object.keys(intensityMap): integer-like keys come in ascending order
IntensityKeys == <<20, 40, 60, 80, 100>>

intensityMap(k) ==
    CASE k = 20 -> "subtly"
      [] k = 40 -> "slightly"
      [] k = 60 -> ""
      [] k = 80 -> "significantly"
      [] OTHER -> "dramatically"

\* Math.abs
abs(value) == IF value < 0 THEN 0 - value ELSE value

\* mutant of withinTier: a tier ends just below its key
withinTierStrict(absoluteValue, k) == absoluteValue < k

\* the test of find: absoluteValue <= parseInt(k)
withinTier(absoluteValue, k) == absoluteValue <= k

\* Object.keys(intensityMap).find(...) from position n on; 0 stands for undefined
RECURSIVE findIntensityKey(_, _)
findIntensityKey(absoluteValue, n) ==
    IF n > Len(IntensityKeys)
      THEN 0
      ELSE IF withinTier(absoluteValue, IntensityKeys[n])
             THEN IntensityKeys[n]
             ELSE findIntensityKey(absoluteValue, n + 1)

\* intensityMap[parseInt(intensityKey || '60')]
intensityOf(value) ==
    LET intensityKey == findIntensityKey(abs(value), 1)
    IN  intensityMap(IF intensityKey = 0 THEN 60 ELSE intensityKey)

\* valueToText; <<>> stands for null
valueToText(key, value) ==
    IF value = 0
      THEN <<>>
      ELSE LET intensity == intensityOf(value)
               direction == IF value > 0 THEN "increase" ELSE "decrease"
           IN  CASE key = "brightness" -> <<direction, " the brightness ", intensity>>
                 [] key = "contrast" -> <<direction, " the contrast ", intensity>>
                 [] key = "saturation" ->
                      <<direction, " the color saturation ", intensity>>
                 [] key = "sharpness" -> <<direction, " the sharpness ", intensity>>
                 [] key = "temperature" ->
                      <<"make the image's color temperature ", intensity, " ",
                        IF value > 0 THEN "warmer" ELSE "cooler">>
                 [] key = "vignetteIntensity" ->
                      <<"add a ", intensity, " ",
                        IF value > 0 THEN "dark" ELSE "light", " vignette">>
                 [] key = "colorBalance" ->
                      <<"shift the color balance ", intensity, " towards ",
                        IF value > 0 THEN "green/cyan" ELSE "magenta/red">>
                 [] OTHER -> <<>>

\* Object.keys(adjustments): the order of the properties of initialAdjustments
KeyOrder ==
    <<"brightness", "contrast", "saturation", "temperature", "sharpness",
      "vignetteIntensity", "vignetteFeather", "colorBalance">>

\* key.startsWith('vignette')
startsWithVignette(key) == key \in {"vignetteIntensity", "vignetteFeather"}

\* the forEach over the keys from position n on: the phrases it pushes
RECURSIVE forEachParts(_, _)
forEachParts(adj, n) ==
    IF n > Len(KeyOrder)
      THEN <<>>
      ELSE LET key == KeyOrder[n]
               part == valueToText(key, adj[key])
           IN  (IF startsWithVignette(key) \/ part = <<>> THEN <<>> ELSE <<part>>)
                 \o forEachParts(adj, n + 1)

\* mutant of featherDesc: the tiers end just below 25 and 75
featherDescStrict(featherValue) ==
    IF featherValue < 25
      THEN "with a hard, distinct edge"
      ELSE IF featherValue < 75
             THEN "with a medium, soft feather"
             ELSE "with a very soft, gradual feather"

featherDesc(featherValue) ==
    IF featherValue <= 25
      THEN "with a hard, distinct edge"
      ELSE IF featherValue <= 75
             THEN "with a medium, soft feather"
             ELSE "with a very soft, gradual feather"

\* the vignette phrase, pushed last
vignetteParts(adj) ==
    IF adj["vignetteIntensity"] # 0
      THEN <<valueToText("vignetteIntensity", adj["vignetteIntensity"])
               \o <<" ", featherDesc(adj["vignetteFeather"])>>>>
      ELSE <<>>

\* parts, when the memo has pushed all its phrases
partsOf(adj) == forEachParts(adj, 1) \o vignetteParts(adj)

\* mutant of join: the separator is left out
RECURSIVE joinNoSeparator(_, _)
joinNoSeparator(ps, sep) ==
    IF ps = <<>> THEN <<>> ELSE ps[1] \o joinNoSeparator(Tail(ps), sep)

\* Array.prototype.join
RECURSIVE join(_, _)
join(ps, sep) ==
    IF ps = <<>>
      THEN <<>>
      ELSE IF Len(ps) = 1
             THEN ps[1]
             ELSE ps[1] \o <<sep>> \o join(Tail(ps), sep)

\* the value of the generatedPrompt memo; <<>> is ''
generatedPrompt(adj) ==
    LET ps == partsOf(adj) IN
    IF Len(ps) = 0
      THEN <<>>
      ELSE IF Len(ps) = 1
             THEN <<"Apply the following adjustment: ">> \o ps[1] \o <<".">>
             ELSE LET lastPart == ps[Len(ps)]
                      rest == SubSeq(ps, 1, Len(ps) - 1)
                  IN  <<"Apply the following adjustments: ">> \o join(rest, ", ")
                        \o <<", and ">> \o lastPart \o <<".">>

\* Slider settings the translator is run on: one slider at every value of its
\* range; a vignette of either kind with every feather; and every combination
\* of the seven sliders at 0, -70 or 30 with feather 10.
TranslatorInputs ==
    {[initialAdjustments EXCEPT ![k] = v] :
        k \in AdjustmentKey \ {"vignetteFeather"}, v \in SliderMin..SliderMax}
    \cup {[initialAdjustments EXCEPT !["vignetteFeather"] = v] : v \in 0..SliderMax}
    \cup {[initialAdjustments EXCEPT !["vignetteIntensity"] = i,
                                     !["vignetteFeather"] = f] :
            i \in {-50, 50}, f \in 0..SliderMax}
    \cup {[k \in AdjustmentKey |-> IF k = "vignetteFeather" THEN 10 ELSE f[k]] :
            f \in [AdjustmentKey \ {"vignetteFeather"} -> {0, -70, 30}]}

\* the memo before and after React has evaluated it for the current sliders
memoFrame == [fn |-> "generatedPrompt", pc |-> "stale", parts |-> <<>>, result |-> <<>>]

\* An image has been uploaded, the Adjust tab is open and the sliders are set.
TranslatorInit ==
    /\ history = <<1>>
    /\ historyIndex = 0
    /\ prompt = ""
    /\ isLoading = FALSE
    /\ error = NoError
    /\ editHotspot = Null
    /\ displayHotspot = Null
    /\ activeTab = "adjust"
    /\ crop = Null
    /\ completedCrop = Null
    /\ aspect = Null
    /\ adjustments \in TranslatorInputs
    /\ passportStep = "idle"
    /\ passportCroppedImage = NoImage
    /\ pending = <<>>
    /\ nextImage = 2
    /\ lastAct = "input"
    /\ nav = NoNav
    /\ frame = memoFrame

\* useMemo(..., [adjustments]) evaluated in the render
memoPrompt ==
    /\ frame.fn = "generatedPrompt"
    /\ frame.pc = "stale"
    /\ frame' = [frame EXCEPT !.pc = "computed",
                              !.parts = partsOf(adjustments),
                              !.result = generatedPrompt(adjustments)]
    /\ UNCHANGED <<progVars, lastAct, nav>>

\* Apply Adjustments pressed in the rendered panel
panelApply == frame.fn = "generatedPrompt" /\ frame.pc = "computed" /\ applyAdjustments

\* handleApply invoked with the button disabled for want of changes
requestApply ==
    /\ frame.fn = "generatedPrompt"
    /\ frame.pc = "computed"
    /\ ~isLoading
    /\ ~hasChanges
    /\ handleApply

TranslatorNext == memoPrompt \/ panelApply \/ requestApply

TranslatorSpec == TranslatorInit /\ [][TranslatorNext]_vars

----------------------------------------------------------------------------
(* Properties *)

\* C1: in every reachable state the cursor is -1 exactly when the history is
\* empty and otherwise 0 <= cursor < length; the current image is
\* sequence[cursor], the original is sequence[0], and both are "no image"
\* exactly when the sequence is empty.
C1_CursorValid ==
    /\ (historyIndex = -1) <=> (history = <<>>)
    /\ history # <<>> => historyIndex \in 0..(Len(history) - 1)
    /\ history # <<>> => /\ currentImage = history[historyIndex + 1]
                         /\ originalImage = history[1]
                         /\ currentImage # NoImage
                         /\ originalImage # NoImage
    /\ history = <<>> => currentImage = NoImage /\ originalImage = NoImage

\* a generator result committed after the user navigated while it was in flight
C1_Witness ==
    /\ lastAct = "resolve"
    /\ nav.stale
    /\ Len(history) >= 2
    /\ historyIndex = Len(history) - 1

\* C2: a commit whose closure is the live history (a crop, or a generator result
\* with nothing in between) turns (seq, cursor) into (seq[0..cursor] followed by
\* the new image, new last index): the entries beyond the old cursor are gone,
\* redo is unavailable and the entries 0..old cursor are unchanged.
C2_CommitTruncates ==
    (nav.kind = "commit" /\ ~nav.stale) =>
        /\ Len(history) = nav.base + 2
        /\ \A k \in 1..(nav.base + 1) : history[k] = nav.hist[k]
        /\ \A k \in 1..Len(nav.hist) : history[Len(history)] # nav.hist[k]
        /\ historyIndex = Len(history) - 1
        /\ ~canRedo

\* a crop applied after an undo, which discarded the undone entry
C2_Witness ==
    /\ lastAct = "applyCrop"
    /\ nav.kind = "commit"
    /\ nav.down >= 1
    /\ nav.base >= 0

\* C3: k undos followed immediately by k redos (k <= cursor, k >= 1) leave the
\* history sequence unchanged and restore the cursor, so the current image is
\* the one that was current before the first undo.
C3_UndoRedoRestores ==
    (nav.kind = "undo" /\ nav.up = nav.down) =>
        /\ history = nav.hist
        /\ historyIndex = nav.base
        /\ currentImage = nav.hist[nav.base + 1]

\* two undos followed by two redos
C3_Witness ==
    /\ lastAct = "redo"
    /\ nav.kind = "undo"
    /\ nav.down = 2
    /\ nav.up = 2

\* C4: reset-to-original on a non-empty history sets the cursor to 0 and leaves
\* the sequence unchanged; with the cursor at n before the reset, n redos right
\* after it make the pre-reset image current again.
C4_ResetThenRedo ==
    /\ lastAct = "reset" => historyIndex = 0 /\ nav.kind = "reset"
    /\ nav.kind = "reset" =>
        /\ history = nav.hist
        /\ historyIndex = nav.up
        /\ nav.up = nav.down => currentImage = nav.hist[nav.base + 1]

\* a reset from cursor 2 followed by two redos
C4_Witness ==
    /\ lastAct = "redo"
    /\ nav.kind = "reset"
    /\ nav.down = 2
    /\ nav.up = 2

\* C5: a generator result that arrives after the user changed History while the
\* call was in flight is committed onto the History as it stands at completion
\* time: completion-time sequence truncated to the completion-time cursor + 1,
\* then the result, cursor on the new last index.
C5_CommitsOntoLiveHistory ==
    (lastAct = "resolve" /\ nav.stale) =>
        /\ history = Append(SubSeq(nav.hist, 1, nav.base + 1), history[Len(history)])
        /\ historyIndex = Len(history) - 1

\* C6: at most one generator call or sheet decode is pending at any time, the
\* busy flag is true while one is pending, and (the busy flag being true only
\* then) no call is issued and no sheet composition started while it is true.
C6_OneCallAtATime ==
    /\ Len(pending) <= 1
    /\ pending # <<>> => isLoading
    /\ isLoading => pending # <<>>

\* a sheet decode pending while the user has undone
C6_Witness ==
    /\ Len(pending) = 1
    /\ pending[1].op = "sheet"
    /\ isLoading
    /\ lastAct = "undo"

\* C7: whenever the busy flag is set it is eventually false again, whether the
\* operation succeeds or fails and whatever the user does meanwhile, given that
\* every call and decode is answered.
C7_BusyEventuallyClears == isLoading ~> ~isLoading

\* a sheet decode answered after the user changed the history meanwhile
C7_Witness ==
    /\ lastAct = "sheetLoad"
    /\ nav.stale
    /\ ~isLoading

\* C8: a failed generator call leaves the history, the cursor, the passport
\* workflow state, the cropped-passport image, the hotspots, the crop rectangles
\* and the adjustment sliders as they were; only the error message and the busy
\* flag change.
C8_FailureKeepsState ==
    [][lastAct' = "fail" =>
          /\ UNCHANGED <<history, historyIndex, passportStep, passportCroppedImage,
                         editHotspot, displayHotspot, crop, completedCrop,
                         adjustments, prompt, activeTab, aspect, nextImage>>
          /\ error' # NoError
          /\ ~isLoading']_vars

\* a failed adjustment call: the sliders are still where the user put them
C8_Witness ==
    /\ lastAct = "fail"
    /\ nav.op = "adjust"
    /\ adjustments["vignetteIntensity"] # 0
    /\ error = "Failed to apply adjustment."

\* C9: whenever an error is surfaced and nothing is pending the busy flag is
\* false; a failed generator call, an unavailable drawing context for the sheet
\* and a failed decode of the sheet's source each leave the error set and the
\* busy flag clear.
C9_ErrorClearsBusy ==
    /\ (error # NoError /\ pending = <<>>) => ~isLoading
    /\ lastAct \in {"fail", "sheetNoContext", "sheetError"} =>
          error # NoError /\ ~isLoading

\* the sheet's source image failed to decode
C9_Witness ==
    /\ lastAct = "sheetError"
    /\ error = "Could not load image to generate sheet."
    /\ pending = <<>>

\* C10: a retouch request with no image loaded, with an empty or whitespace-only
\* prompt, or with no hotspot issues no generator call: it surfaces an error and
\* leaves the busy flag false and the history, cursor and transient state as
\* they were.
C10_InvalidRetouchRejected ==
    [][/\ (/\ lastAct' = "issue"
           /\ pending'[Len(pending')].op = "edit")
          => (history # <<>> /\ prompt \notin {"", " "} /\ editHotspot # <<>>)
       /\ lastAct' = "reject" =>
          /\ (history = <<>> \/ prompt \in {"", " "} \/ editHotspot = <<>>)
          /\ UNCHANGED <<history, historyIndex, pending, isLoading, editHotspot,
                         displayHotspot, crop, completedCrop, adjustments,
                         passportStep, passportCroppedImage, prompt>>
          /\ error' # NoError
          /\ ~isLoading']_vars

\* a whitespace-only prompt was rejected
C10_Witness ==
    /\ lastAct = "reject"
    /\ prompt = " "
    /\ editHotspot # Null
    /\ error = "Please enter a description for your edit."
    /\ ~isLoading

\* C11: every change of the active editing mode resets the transient state:
\* switching from any mode to a different one sets all adjustment sliders to 0
\* and clears the hotspot and the pending crop rectangle.
C11_TabChangeResetsTransient ==
    lastAct = "tab" =>
        /\ adjustments = initialAdjustments
        /\ editHotspot = Null
        /\ displayHotspot = Null
        /\ crop = Null
        /\ completedCrop = Null

\* the handlers after which the history sequence or the cursor has changed
HistoryMutations ==
    {"upload", "applyCrop", "resolve", "sheetLoad", "undo", "redo", "reset"}

transientCleared ==
    /\ crop = Null
    /\ completedCrop = Null
    /\ editHotspot = Null
    /\ displayHotspot = Null
    /\ adjustments = initialAdjustments

\* C12: immediately after every History mutation that takes effect (a commit
\* of any kind, an undo, a redo, a reset-to-original, an upload) the pending
\* and completed crop rectangles and both hotspots are none and every
\* adjustment slider is 0.  Upload New, which empties the history, is included.
C12_MutationClearsTransient ==
    lastAct \in HistoryMutations \cup {"uploadNew"} => transientCleared

\* an adjustment result has been committed and the sliders that described it are 0
C12_Witness ==
    /\ lastAct = "resolve"
    /\ nav.op = "adjust"
    /\ transientCleared

\* C13: every transient-state reset unsets the locked aspect ratio: after a
\* commit, undo, redo, reset-to-original or upload performed in the general
\* crop mode, no aspect ratio is locked.
C13_MutationUnsetsAspect ==
    (lastAct \in HistoryMutations /\ activeTab = "crop") => aspect = Null

\* C14: in every reachable state the cropped-passport image is present if and
\* only if the passport workflow state is background or sheet.
C14_CroppedIffBackgroundOrSheet ==
    (passportCroppedImage # NoImage) <=> (passportStep \in {"background", "sheet"})

\* C15: switching from passport to another mode sets the workflow to idle and
\* discards the cropped-passport image, and whenever the active mode is not
\* passport the workflow is idle with no cropped-passport image.
C15_IdleOutsidePassport ==
    activeTab # "passport" =>
        (passportStep = "idle" /\ passportCroppedImage = NoImage)

\* C16: activating the passport mode moves the workflow to cropping with the
\* aspect ratio locked to 7/9 and the transient state cleared, and whenever
\* the workflow is cropping the locked aspect ratio is 7/9.
C16_CroppingLocksAspect ==
    /\ (lastAct = "tab" /\ activeTab = "passport") =>
           (passportStep = "cropping" /\ transientCleared)
    /\ passportStep = "cropping" => aspect = PassportAspect

\* the workflow was reset to cropping by Start Over and the ratio is still 7/9
C16_Witness ==
    /\ lastAct = "startOver"
    /\ passportStep = "cropping"
    /\ aspect = PassportAspect

\* C17: in cropping, confirming the crop when there is no completed crop
\* rectangle or when it has zero width is rejected: the workflow stays
\* cropping, no cropped-passport image is stored, and the history and the
\* cursor are unchanged.
C17_EmptyCropRejected ==
    [][(passportStep = "cropping" /\ ~isCropping) =>
          /\ lastAct' # "passportCrop"
          /\ lastAct' = "passportCropFailed" =>
                /\ passportStep' = "cropping"
                /\ passportCroppedImage' = NoImage
                /\ UNCHANGED <<history, historyIndex>>]_vars

\* handlePassportCrop ran on a completed crop of zero width and was rejected
C17_Witness ==
    /\ lastAct = "passportCropFailed"
    /\ completedCrop # Null
    /\ completedCrop[1].width = 0
    /\ passportStep = "cropping"
    /\ passportCroppedImage = NoImage

\* C18: in cropping, confirming a non-empty completed crop rectangle stores the
\* crop of the current History image as the cropped-passport image, moves the
\* workflow to background and clears the transient state, and leaves the
\* history sequence and the cursor unchanged.
C18_ConfirmCropStoresCrop ==
    [][lastAct' = "passportCrop" =>
          /\ passportStep = "cropping"
          /\ isCropping
          /\ nav'.src = at(history, historyIndex)
          /\ passportCroppedImage' # NoImage
          /\ \A k \in 1..Len(history) : history[k] # passportCroppedImage'
          /\ passportStep' = "background"
          /\ transientCleared'
          /\ UNCHANGED <<history, historyIndex>>]_vars

\* a crop was confirmed: the workflow is in background with a cropped image
\* that is not an entry of the history
C18_Witness ==
    /\ lastAct = "passportCrop"
    /\ passportStep = "background"
    /\ passportCroppedImage # NoImage
    /\ history # <<>>
    /\ \A k \in 1..Len(history) : history[k] # passportCroppedImage

\* C19: in background, confirming a color issues exactly one generator call
\* whose input image is the cropped-passport image; if the call succeeds its
\* result is committed to History (one entry appended after the cursor, the
\* cursor at the new last index, adjustments all 0) and the workflow becomes
\* sheet; if it fails the workflow, the cropped-passport image and History are
\* left as they were and an error is surfaced.
C19_BackgroundCall ==
    [][/\ (lastAct' = "issue" /\ pending'[Len(pending')].op = "passport") =>
             /\ passportStep = "background"
             /\ pending' = Append(pending, pending'[Len(pending')])
             /\ pending'[Len(pending')].image = passportCroppedImage
             /\ passportCroppedImage # NoImage
       /\ (lastAct' = "resolve" /\ nav'.op = "passport") =>
             /\ history' = Append(SubSeq(history, 1, historyIndex + 1),
                                  history'[Len(history')])
             /\ \A k \in 1..Len(history) : history[k] # history'[Len(history')]
             /\ historyIndex' = Len(history') - 1
             /\ adjustments' = initialAdjustments
             /\ passportStep' = "sheet"
       /\ (lastAct' = "fail" /\ nav'.op = "passport") =>
             /\ UNCHANGED <<passportStep, passportCroppedImage, history,
                            historyIndex>>
             /\ error' # NoError]_vars

\* C20: in sheet, a sheet request with a positive copy count whose source
\* image decodes commits exactly one new image to History after the cursor,
\* leaves the cursor on that new last entry, clears the busy flag and moves
\* the workflow to idle; a request with a non-positive or non-numeric copy
\* count starts no composition and changes no state.
C20_SheetRequest ==
    [][/\ (lastAct' = "issue" /\ pending'[Len(pending')].op = "sheet") =>
             /\ passportStep = "sheet"
             /\ pending'[Len(pending')].photoCount > 0
       /\ lastAct' = "sheetLoad" =>
             /\ history' = Append(SubSeq(history, 1, historyIndex + 1),
                                  history'[Len(history')])
             /\ \A k \in 1..Len(history) : history[k] # history'[Len(history')]
             /\ historyIndex' = Len(history') - 1
             /\ ~isLoading'
             /\ passportStep' = "idle"
       /\ lastAct' = "sheetIgnored" => UNCHANGED progVars]_vars

\* C21: a workflow reset requested from any passport workflow state moves the
\* workflow to cropping, discards the cropped-passport image and clears the
\* transient state, and leaves the history sequence and the cursor unchanged.
C21_WorkflowReset ==
    [][lastAct' = "startOver" =>
          /\ passportStep' = "cropping"
          /\ passportCroppedImage' = NoImage
          /\ transientCleared'
          /\ UNCHANGED <<history, historyIndex>>]_vars

\* the workflow was reset after the background result had been committed
C21_Witness ==
    /\ lastAct = "startOver"
    /\ passportStep = "cropping"
    /\ passportCroppedImage = NoImage
    /\ Len(history) >= 2

C23_NoOpNavigation ==
    [][/\ ~canUndo => lastAct' # "undo"
       /\ ~canRedo => lastAct' # "redo"
       /\ history = <<>> => lastAct' # "reset"
       /\ lastAct' = "navIgnored" => UNCHANGED progVars
       /\ lastAct' = "undo" =>
             (historyIndex' = historyIndex - 1 /\ history' = history)
       /\ lastAct' = "redo" =>
             (historyIndex' = historyIndex + 1 /\ history' = history)
       /\ lastAct' = "reset" =>
             (historyIndex' = 0 /\ history' = history)]_vars

\* handleUndo ran at cursor 0 with a slider set, and the slider is still set
C23_Witness ==
    /\ lastAct = "navIgnored"
    /\ historyIndex = 0
    /\ Len(history) = 1
    /\ adjustments # initialAdjustments

\* the number of photos drawn on the canvas of the sheet
placed == (Len(frame.canvas) - 1) \div 2

\* how many photos fit side by side, and how many rows fit, inside the margins
itemsPerRow(sheetSize, layout) ==
    (sheetW_px(sheetSize, layout) - margin_px) \div (photoW_px + margin_px)
rowsPerSheet(sheetSize, layout) ==
    (sheetH_px(sheetSize, layout) - margin_px) \div (photoH_px + margin_px)
capacity(sheetSize, layout) ==
    itemsPerRow(sheetSize, layout) * rowsPerSheet(sheetSize, layout)

\* C24: for every page preset and orientation the number of items placed is
\* min(copyCount, capacity), with capacity = items per row * rows inside the
\* margins (6 for 4x6 portrait); when copyCount exceeds capacity fewer items
\* than asked for are placed, no error is surfaced and the sheet is still
\* committed to History.
C24_PlacesMinOfCountAndCapacity ==
    (frame.fn = "onload" /\ frame.done) =>
        LET cap == capacity(frame.sheetSize, frame.layout) IN
        /\ placed = IF frame.photoCount < cap THEN frame.photoCount ELSE cap
        /\ (frame.sheetSize = "4x6" /\ frame.layout = "portrait") => cap = 6
        /\ frame.photoCount > cap => placed < frame.photoCount
        /\ error = NoError
        /\ ENABLED onloadCommit \/ lastAct = "sheetLoad"
        /\ lastAct = "sheetLoad" =>
              (history = <<1, 3, 4>> /\ historyIndex = 2 /\ ~isLoading)

\* more photos were asked for than an A4 sheet holds, and the sheet was committed
C24_Witness ==
    /\ frame.fn = "onload"
    /\ frame.sheetSize = "A4"
    /\ frame.photoCount > capacity("A4", frame.layout)
    /\ placed = capacity("A4", frame.layout)
    /\ lastAct = "sheetLoad"
    /\ history = <<1, 3, 4>>
    /\ error = NoError

\* where the claim puts the k-th photo (counting from 0) of a sheet
claimedX(k, sheetSize, layout) ==
    margin_px + (k % itemsPerRow(sheetSize, layout)) * (photoW_px + margin_px)
claimedY(k, sheetSize, layout) ==
    margin_px + (k \div itemsPerRow(sheetSize, layout)) * (photoH_px + margin_px)

\* C25: the i-th item (counting from 0) is placed at
\* x = margin + (i mod c) * (itemWidth + margin) and
\* y = margin + (i div c) * (itemHeight + margin), c being the items per row;
\* each placed item gets one cut-guide outline and one image fill of item
\* size, so 4x6, portrait, 1 copy yields exactly one item at (margin, margin).
C25_ItemPositions ==
    frame.fn = "onload" =>
        /\ Len(frame.canvas) = 1 + 2 * frame.i
        /\ \A k \in 0..(frame.i - 1) :
              LET x == claimedX(k, frame.sheetSize, frame.layout)
                  y == claimedY(k, frame.sheetSize, frame.layout)
              IN  /\ frame.canvas[2 * k + 2] = strokeRect(x, y, photoW_px, photoH_px)
                  /\ frame.canvas[2 * k + 3] = drawImage(x, y, photoW_px, photoH_px)
        /\ (/\ frame.done
            /\ frame.sheetSize = "4x6"
            /\ frame.layout = "portrait"
            /\ frame.photoCount = 1) =>
              frame.canvas =
                 <<fillRect(0, 0, sheetW_px("4x6", "portrait"),
                            sheetH_px("4x6", "portrait")),
                   strokeRect(margin_px, margin_px, photoW_px, photoH_px),
                   drawImage(margin_px, margin_px, photoW_px, photoH_px)>>

\* a 5x7 portrait sheet has been filled: three rows of three photos
C25_Witness ==
    /\ frame.fn = "onload"
    /\ frame.done
    /\ frame.sheetSize = "5x7"
    /\ frame.layout = "portrait"
    /\ frame.i = 9
    /\ frame.canvas[2 * 8 + 2].x = margin_px + 2 * (photoW_px + margin_px)
    /\ frame.canvas[2 * 8 + 2].y = margin_px + 2 * (photoH_px + margin_px)

\* C26: crop-to-file on a rectangle of width W and height H in displayed
\* coordinates, for an image whose natural/displayed scale factor is S and
\* with device pixel ratio P, gives a raster of (W*S*P) x (H*S*P) pixels, for
\* every W, H > 0 and S, P >= 1.
C26_CropRasterSize ==
    (/\ frame.fn = "cropImageToFile"
     /\ frame.pc = "returned"
     /\ frame.devicePixelRatio >= 1) =>
        /\ frame.canvas.width =
              frame.crop.width * frame.scaleX * frame.devicePixelRatio
        /\ frame.canvas.height =
              frame.crop.height * frame.scaleY * frame.devicePixelRatio

\* the memo holds the instruction for the sliders as they are now
memoComputed == frame.fn = "generatedPrompt" /\ frame.pc = "computed"

\* the pieces a text is made of
pieces(text) == {text[i] : i \in DOMAIN text}

\* the sliders other than vignette feather
PhraseKeys == AdjustmentKey \ {"vignetteFeather"}
nonZeroKeys(adj) == {k \in PhraseKeys : adj[k] # 0}

IntensityWords == {"subtly", "slightly", "significantly", "dramatically"}
PolarityWords ==
    {"increase", "decrease", "warmer", "cooler", "dark", "light",
     "green/cyan", "magenta/red"}

\* the intensity word the tiers of |v| call for; none for 41..60
claimedIntensity(v) ==
    LET a == IF v < 0 THEN 0 - v ELSE v IN
    IF a <= 20 THEN {"subtly"}
    ELSE IF a <= 40 THEN {"slightly"}
    ELSE IF a <= 60 THEN {}
    ELSE IF a <= 80 THEN {"significantly"}
    ELSE {"dramatically"}

\* the polarity word the sign of v calls for
claimedPolarity(k, v) ==
    CASE k = "temperature" -> IF v > 0 THEN "warmer" ELSE "cooler"
      [] k = "vignetteIntensity" -> IF v > 0 THEN "dark" ELSE "light"
      [] k = "colorBalance" -> IF v > 0 THEN "green/cyan" ELSE "magenta/red"
      [] OTHER -> IF v > 0 THEN "increase" ELSE "decrease"

\* C27: for every slider other than vignette feather and every non-zero value
\* v in [-100, 100], the intensity word of the phrase is the one of the tier of
\* |v| (subtly <= 20, slightly 21..40, none 41..60, significantly 61..80,
\* dramatically 81..100) and the polarity word is the one of the sign of v.
C27_IntensityAndPolarity ==
    memoComputed =>
        \A k \in PhraseKeys :
            nonZeroKeys(adjustments) = {k} =>
                /\ Len(frame.parts) = 1
                /\ pieces(frame.parts[1]) \cap IntensityWords
                     = claimedIntensity(adjustments[k])
                /\ pieces(frame.parts[1]) \cap PolarityWords
                     = {claimedPolarity(k, adjustments[k])}

C27_Witness ==
    /\ memoComputed
    /\ adjustments["temperature"] = -81
    /\ "dramatically" \in pieces(frame.parts[1])
    /\ "cooler" \in pieces(frame.parts[1])

\* C28: the instruction is empty exactly when every slider other than vignette
\* feather is 0 (so also when all sliders are 0), and applying with an empty
\* instruction issues no call: it changes no state and leaves the busy flag.
C28_EmptyInstruction ==
    /\ [](memoComputed =>
            /\ (frame.result = <<>>) <=> (nonZeroKeys(adjustments) = {})
            /\ (frame.result = <<>>) <=> generatedPromptEmpty(adjustments))
    /\ [][(memoComputed /\ frame.result = <<>>) => UNCHANGED progVars]_vars
    /\ [][(memoComputed /\ pending' # pending) => frame.result # <<>>]_vars

C28_Witness ==
    /\ memoComputed
    /\ lastAct = "applyIgnored"
    /\ adjustments["vignetteFeather"] # 0
    /\ frame.result = <<>>
    /\ ~isLoading
    /\ pending = <<>>

FeatherDescriptors ==
    {"with a hard, distinct edge", "with a medium, soft feather",
     "with a very soft, gradual feather"}

\* the descriptor the feather value calls for
claimedFeather(f) ==
    IF f <= 25 THEN "with a hard, distinct edge"
    ELSE IF f <= 75 THEN "with a medium, soft feather"
    ELSE "with a very soft, gradual feather"

\* C29: the instruction holds a feather descriptor iff vignette intensity is
\* non-zero, and then exactly one, chosen by the feather value: hard, distinct
\* edge <= 25, medium, soft feather 26..75, very soft, gradual feather 76..100;
\* intensity 50 with feather 10 gives a phrase with "dark" and the hard edge.
C29_FeatherDescriptor ==
    memoComputed =>
        LET descAt == {i \in DOMAIN frame.result : frame.result[i] \in FeatherDescriptors}
        IN  /\ adjustments["vignetteIntensity"] = 0 => descAt = {}
            /\ adjustments["vignetteIntensity"] # 0 =>
                  /\ Cardinality(descAt) = 1
                  /\ \A i \in descAt :
                        frame.result[i] = claimedFeather(adjustments["vignetteFeather"])
            /\ (adjustments["vignetteIntensity"] = 50
                  /\ adjustments["vignetteFeather"] = 10) =>
                  {"dark", "with a hard, distinct edge"}
                     \subseteq pieces(frame.parts[Len(frame.parts)])

C29_Witness ==
    /\ memoComputed
    /\ adjustments["vignetteIntensity"] = 50
    /\ adjustments["vignetteFeather"] = 76
    /\ "with a very soft, gradual feather" \in pieces(frame.result)

\* the piece only the phrase of slider k has
phraseMark(k) ==
    CASE k = "brightness" -> " the brightness "
      [] k = "contrast" -> " the contrast "
      [] k = "saturation" -> " the color saturation "
      [] k = "sharpness" -> " the sharpness "
      [] k = "temperature" -> "make the image's color temperature "
      [] k = "vignetteIntensity" -> " vignette"
      [] OTHER -> "shift the color balance "

\* phrases i..n-1 each followed by ", ", the last of them by ", and " instead,
\* then phrase n
RECURSIVE claimedList(_, _)
claimedList(ps, i) ==
    IF i >= Len(ps)
      THEN ps[Len(ps)]
      ELSE ps[i] \o <<IF i = Len(ps) - 1 THEN ", and " ELSE ", ">>
             \o claimedList(ps, i + 1)

\* C30: the instruction has one phrase for each non-zero slider among the seven
\* other than vignette feather and none for a zero one; one phrase gives
\* "Apply the following adjustment: P.", n >= 2 give the plural form with the
\* first n-1 phrases joined by ", ", then ", and ", the last phrase and a
\* period; the vignette phrase is last when present.
C30_PhraseCountAndForm ==
    memoComputed =>
        LET n == Len(frame.parts) IN
        /\ n = Cardinality(nonZeroKeys(adjustments))
        /\ \A k \in PhraseKeys :
              Cardinality({i \in 1..n : phraseMark(k) \in pieces(frame.parts[i])})
                = IF adjustments[k] # 0 THEN 1 ELSE 0
        /\ n = 1 =>
              frame.result
                = <<"Apply the following adjustment: ">> \o frame.parts[1] \o <<".">>
        /\ n >= 2 =>
              frame.result
                = <<"Apply the following adjustments: ">>
                    \o claimedList(frame.parts, 1) \o <<".">>
        /\ adjustments["vignetteIntensity"] # 0 =>
              " vignette" \in pieces(frame.parts[n])

C30_Witness ==
    /\ memoComputed
    /\ Len(frame.parts) = 4
    /\ adjustments["brightness"] = 0
    /\ adjustments["vignetteIntensity"] = 30
    /\ adjustments["colorBalance"] = -70
    /\ frame.result[Len(frame.result) - 8] = ", and "

\* C31: whenever the passport workflow is in `sheet`, the current history image
\* is the passport photo the background step of this run committed, also after
\* undo, redo or reset-to-original in `sheet`: the step is entered only by the
\* background step committing the photo as the current image, and while it
\* lasts the current image stays that photo.
C31_SheetTilesPassportPhoto ==
    [][passportStep' = "sheet" =>
          IF lastAct' = "resolve" /\ nav'.op = "passport" /\ nextImage' # nextImage
            THEN currentImage' = nextImage
            ELSE passportStep = "sheet" /\ currentImage' = currentImage]_vars

\* C32: after an image X is uploaded the original image stays X until the next
\* upload or Upload New, and no image of the history before the upload comes
\* back, also when a call issued before the upload resolves after it: a step
\* other than an upload or Upload New keeps the first entry of a non-empty
\* history and adds no image but the newly made one.
C32_OriginalAfterUpload ==
    [][(lastAct' \notin {"upload", "uploadNew"} /\ history # <<>>) =>
          /\ originalImage' = originalImage
          /\ {history'[j] : j \in DOMAIN history'}
                \subseteq {history[j] : j \in DOMAIN history} \cup {nextImage}]_vars

\* C33: for every page preset, orientation and copy count, every placed item
\* lies inside the page at least one margin away from each page edge, any two
\* placed items are at least one margin apart horizontally or vertically, and
\* the layout loop runs at most copyCount iterations (the iteration that stops
\* for want of room included).
C33_ItemsInsidePageAndApart ==
    frame.fn = "onload" =>
        LET sheetW == sheetW_px(frame.sheetSize, frame.layout)
            sheetH == sheetH_px(frame.sheetSize, frame.layout)
            drawn == 2..Len(frame.canvas)
            stopped == frame.done /\ frame.i < frame.photoCount
        IN  /\ \A j \in drawn :
                  LET r == frame.canvas[j] IN
                  /\ r.x >= margin_px
                  /\ r.y >= margin_px
                  /\ r.x + r.w + margin_px <= sheetW
                  /\ r.y + r.h + margin_px <= sheetH
            /\ \A j, k \in drawn :
                  LET a == frame.canvas[j]
                      b == frame.canvas[k]
                  IN  (a.op = "strokeRect" /\ b.op = "strokeRect" /\ j < k) =>
                          \/ a.x + a.w + margin_px <= b.x
                          \/ b.x + b.w + margin_px <= a.x
                          \/ a.y + a.h + margin_px <= b.y
                          \/ b.y + b.h + margin_px <= a.y
            /\ frame.i + (IF stopped THEN 1 ELSE 0) <= frame.photoCount

\* a landscape 4x6 sheet filled to its six places, one more having been asked for
C33_Witness ==
    /\ frame.fn = "onload"
    /\ frame.done
    /\ frame.sheetSize = "4x6"
    /\ frame.layout = "landscape"
    /\ frame.photoCount = 7
    /\ frame.i = 6
    /\ frame.canvas[2 * 3 + 2].x = margin_px
    /\ frame.canvas[2 * 3 + 2].y = margin_px + photoH_px + margin_px

\* C34: no generator call is issued and no sheet composition started while the
\* history is empty: every pending call was issued on a non-empty history with
\* an image that was present then (the current image, or for the passport
\* background the cropped-passport image), and with an empty history the
\* filter, adjustment, auto-adjust, upscale, passport-background and sheet
\* handlers change no state.
C34_NoCallWithoutImage ==
    /\ [](\A n \in DOMAIN pending :
            /\ pending[n].image # NoImage
            /\ pending[n].history # <<>>
            /\ pending[n].op # "passport" =>
                  pending[n].image = at(pending[n].history, pending[n].historyIndex))
    /\ [][Len(pending') > Len(pending) =>
            /\ history # <<>>
            /\ pending'[Len(pending')].image
                  = IF pending'[Len(pending')].op = "passport"
                      THEN passportCroppedImage
                      ELSE currentImage]_vars
    /\ [][(history = <<>> /\ lastAct' \in {"issue", "sheetNoContext", "callIgnored"}) =>
            (lastAct' = "callIgnored" /\ UNCHANGED progVars)]_vars

\* a handler was invoked after Upload New emptied the history, a call issued
\* before it being still in flight
C34_Witness ==
    /\ history = <<>>
    /\ lastAct = "callIgnored"
    /\ pending # <<>>
    /\ isLoading

====
